---------------------------- MODULE Spec2Model ----------------------------
(***************************************************************************)
(* The workbook read / edit / save commands of src-tauri/src/excel.rs and  *)
(* their Tauri wrappers in src-tauri/src/lib.rs.                            *)
(*                                                                         *)
(* Text is a sequence of one-character strings, so that lower-casing,      *)
(* substring search, float parsing and float formatting are computed and   *)
(* not assumed.  An f64 is a decimal  (-1)^neg * m * 10^(-e)  in normal    *)
(* form, or an infinity, or NaN; within the few digits used here the       *)
(* shortest decimal that Rust prints for an f64 is that normal form.       *)
(***************************************************************************)
EXTENDS Integers, Sequences, FiniteSets, TLC

VARIABLES
    file,      \* the workbook file at the path the commands are called with
    pc,        \* per caller: "idle", "apply" (batch loop), "write" (write_excel_file)
    call,      \* per caller: the command in flight and its arguments
    sheets,    \* per caller: the in-memory Vec<ExcelData> of the command in flight
    result,    \* per caller: what the last command returned
    ncalls,    \* number of commands invoked so far
    edited,    \* an edit command (update_cell / update_excel_cells) has returned
    produced,  \* the file's current content was saved by write_excel_file
    arg,       \* input of a pure conversion under test
    out,       \* its output
    project_notes  \* the files of the directory "project_notes": name -> content

vars == <<file, pc, call, sheets, result, ncalls, edited, produced, arg, out,
          project_notes>>

---------------------------------------------------------------------------
(* Bounds of the model. *)

MaxCalls == 2
MaxBatch == 2
MaxRow == 3
MaxCol == 1
MaxStrLen == 3

MaxNoteCalls == 3

---------------------------------------------------------------------------
(* Text. *)

Max(a, b) == IF a >= b THEN a ELSE b

Min(a, b) == IF a <= b THEN a ELSE b

UpperCase == <<"A","B","C","D","E","F","G","H","I","J","K","L","M",
               "N","O","P","Q","R","S","T","U","V","W","X","Y","Z">>

LowerCase == <<"a","b","c","d","e","f","g","h","i","j","k","l","m",
               "n","o","p","q","r","s","t","u","v","w","x","y","z">>

DigitChars == <<"0","1","2","3","4","5","6","7","8","9">>

ToLowerChar(c) ==
    IF \E i \in DOMAIN UpperCase : UpperCase[i] = c
    THEN LowerCase[CHOOSE i \in DOMAIN UpperCase : UpperCase[i] = c]
    ELSE c

\* str::to_lowercase
ToLowercase(s) == [i \in 1..Len(s) |-> ToLowerChar(s[i])]

\* str::contains(&str)
Contains(s, sub) ==
    \E k \in 0..(Len(s) - Len(sub)) :
        \A i \in 1..Len(sub) : s[k + i] = sub[i]

IsDigit(c) == \E i \in DOMAIN DigitChars : DigitChars[i] = c

DigitVal(c) == (CHOOSE i \in DOMAIN DigitChars : DigitChars[i] = c) - 1

AllDigits(s) == \A i \in 1..Len(s) : IsDigit(s[i])

RECURSIVE DigitsValue(_)
DigitsValue(s) ==
    IF s = <<>> THEN 0
    ELSE DigitsValue(SubSeq(s, 1, Len(s) - 1)) * 10 + DigitVal(s[Len(s)])

\* Display of an unsigned integer (usize / the digits of a float)
RECURSIVE NatToStr(_)
NatToStr(n) ==
    IF n < 10 THEN <<DigitChars[n + 1]>>
    ELSE NatToStr(n \div 10) \o <<DigitChars[(n % 10) + 1]>>

RECURSIVE Pow10(_)
Pow10(k) == IF k = 0 THEN 1 ELSE 10 * Pow10(k - 1)

RECURSIVE Zeros(_)
Zeros(k) == IF k <= 0 THEN <<>> ELSE <<"0">> \o Zeros(k - 1)

---------------------------------------------------------------------------
(* f64. *)

RECURSIVE Normal(_, _)
Normal(m, e) ==
    IF m = 0 THEN [m |-> 0, e |-> 0]
    ELSE IF e > 0 /\ m % 10 = 0 THEN Normal(m \div 10, e - 1)
    ELSE [m |-> m, e |-> e]

Fin(neg, m, e) ==
    [k |-> "fin", neg |-> neg, m |-> Normal(m, e).m, e |-> Normal(m, e).e]

Inf(neg) == [k |-> "inf", neg |-> neg, m |-> 0, e |-> 0]

NaN == [k |-> "nan", neg |-> FALSE, m |-> 0, e |-> 0]

\* i64 as f64
IntToF64(i) == IF i < 0 THEN Fin(TRUE, 0 - i, 0) ELSE Fin(FALSE, i, 0)

\* f64::to_string (Display: never an exponent)
F64ToString(f) ==
    IF f.k = "nan" THEN <<"N","a","N">>
    ELSE LET sign == IF f.neg THEN <<"-">> ELSE <<>>
         IN  IF f.k = "inf" THEN sign \o <<"i","n","f">>
             ELSE IF f.e = 0 THEN sign \o NatToStr(f.m)
             ELSE LET d  == NatToStr(f.m)
                      dd == Zeros(f.e + 1 - Len(d)) \o d
                  IN  sign \o SubSeq(dd, 1, Len(dd) - f.e) \o <<".">>
                           \o SubSeq(dd, Len(dd) - f.e + 1, Len(dd))

ParseErr == [ok |-> FALSE, val |-> NaN]

ParseOk(f) == [ok |-> TRUE, val |-> f]

\* position of the first 'e' / 'E' of s, or 0
ExpPos(s) ==
    IF \E i \in 1..Len(s) : ToLowerChar(s[i]) = "e"
    THEN CHOOSE i \in 1..Len(s) :
            /\ ToLowerChar(s[i]) = "e"
            /\ \A j \in 1..(i - 1) : ToLowerChar(s[j]) # "e"
    ELSE 0

DotPos(s) ==
    IF \E i \in 1..Len(s) : s[i] = "."
    THEN CHOOSE i \in 1..Len(s) : s[i] = "." /\ \A j \in 1..(i - 1) : s[j] # "."
    ELSE 0

\* Number ::= ( Digit+ | Digit+ '.' Digit* | Digit* '.' Digit+ ) Exp?
\* Exp    ::= 'e' Sign? Digit+
ParseNumber(neg, s) ==
    LET ep    == ExpPos(s)
        mant  == IF ep = 0 THEN s ELSE SubSeq(s, 1, ep - 1)
        ex    == IF ep = 0 THEN <<>> ELSE SubSeq(s, ep + 1, Len(s))
        exNeg == ex # <<>> /\ ex[1] = "-"
        exDig == IF ex # <<>> /\ ex[1] \in {"+", "-"} THEN Tail(ex) ELSE ex
        dp    == DotPos(mant)
        ip    == IF dp = 0 THEN mant ELSE SubSeq(mant, 1, dp - 1)
        fp    == IF dp = 0 THEN <<>> ELSE SubSeq(mant, dp + 1, Len(mant))
        x     == IF exNeg THEN 0 - DigitsValue(exDig) ELSE DigitsValue(exDig)
        sh    == x - Len(fp)
    IN  IF /\ AllDigits(ip) /\ AllDigits(fp) /\ Len(ip) + Len(fp) > 0
           /\ (ep = 0 \/ (exDig # <<>> /\ AllDigits(exDig)))
        THEN ParseOk(IF sh >= 0
                     THEN Fin(neg, DigitsValue(ip \o fp) * Pow10(sh), 0)
                     ELSE Fin(neg, DigitsValue(ip \o fp), 0 - sh))
        ELSE ParseErr

\* str::parse::<f64>:  Float ::= Sign? ( 'inf' | 'infinity' | 'nan' | Number )
ParseF64(s) ==
    LET signed == s # <<>> /\ s[1] \in {"+", "-"}
        neg    == s # <<>> /\ s[1] = "-"
        body   == IF signed THEN Tail(s) ELSE s
        low    == ToLowercase(body)
    IN  IF low = <<"i","n","f">> \/ low = <<"i","n","f","i","n","i","t","y">>
        THEN ParseOk(Inf(neg))
        ELSE IF low = <<"n","a","n">> THEN ParseOk(NaN)
        ELSE ParseNumber(neg, body)

---------------------------------------------------------------------------
(* DataValue (the cell value of the program) and Data (the parser's cell). *)

Text(s) == [t |-> "Text", v |-> s]

Number(f) == [t |-> "Number", v |-> f]

Integer(i) == [t |-> "Integer", v |-> i]

Boolean(b) == [t |-> "Boolean", v |-> b]

Empty == [t |-> "Empty", v |-> <<>>]

DString(s) == [d |-> "String", v |-> s]

DFloat(f) == [d |-> "Float", v |-> f]

DInt(i) == [d |-> "Int", v |-> i]

DBool(b) == [d |-> "Bool", v |-> b]

DEmpty == [d |-> "Empty", v |-> <<>>]

DError == [d |-> "Error", v |-> <<>>]

DDateTime(f) == [d |-> "DateTime", v |-> f]

DDateTimeIso(s) == [d |-> "DateTimeIso", v |-> s]

DDurationIso(s) == [d |-> "DurationIso", v |-> s]

\* impl From<Data> for DataValue
From(dt) ==
    CASE dt.d = "String"      -> Text(dt.v)
      [] dt.d = "Float"       -> Number(dt.v)
      [] dt.d = "Int"         -> Integer(dt.v)
      [] dt.d = "Bool"        -> Boolean(dt.v)
      [] dt.d = "Empty"       -> Empty
      [] dt.d = "Error"       -> Empty
      [] dt.d = "DateTime"    -> Number(dt.v)
      [] dt.d = "DateTimeIso" -> Text(dt.v)
      [] dt.d = "DurationIso" -> Text(dt.v)

ExcelData(headers, rows, sheet_name) ==
    [headers |-> headers, rows |-> rows, sheet_name |-> sheet_name]

CellUpdate(row, column, value) ==
    [row |-> row, column |-> column, value |-> value]

---------------------------------------------------------------------------
(* The file: missing, not a workbook container, or a workbook, which is a  *)
(* sequence of worksheets [name, grid]; grid[r][c] is the cell at row r-1, *)
(* column c-1 of the worksheet, DEmpty where the worksheet stores no cell. *)

Missing == [st |-> "missing", wb |-> <<>>]

Invalid == [st |-> "invalid", wb |-> <<>>]

Xlsx(wb) == [st |-> "xlsx", wb |-> wb]

Worksheet(name, grid) == [name |-> name, grid |-> grid]

CellAt(grid, r, c) ==
    IF r <= Len(grid) /\ c <= Len(grid[r]) THEN grid[r][c] ELSE DEmpty

UsedRows(grid) ==
    {r \in 1..Len(grid) : \E c \in 1..Len(grid[r]) : grid[r][c] # DEmpty}

UsedCols(grid) ==
    UNION {{c \in 1..Len(grid[r]) : grid[r][c] # DEmpty} : r \in 1..Len(grid)}

Least(S) == CHOOSE x \in S : \A y \in S : x <= y

Greatest(S) == CHOOSE x \in S : \A y \in S : x >= y

\* Xlsx::worksheet_range followed by Range::rows: the rectangle from the
\* first to the last stored cell, in rows and in columns
WorksheetRange(grid) ==
    IF UsedRows(grid) = {} THEN <<>>
    ELSE LET r0 == Least(UsedRows(grid))
             r1 == Greatest(UsedRows(grid))
             c0 == Least(UsedCols(grid))
             c1 == Greatest(UsedCols(grid))
         IN  [r \in 1..(r1 - r0 + 1) |->
                [c \in 1..(c1 - c0 + 1) |-> CellAt(grid, r0 + r - 1, c0 + c - 1)]]

---------------------------------------------------------------------------
(* read_excel_file *)

Vacation == <<"v","a","c","a","t","i","o","n">>

Pipeline == <<"p","i","p","e","l","i","n","e">>

Program == <<"p","r","o","g","r","a","m">>

PipelineHeaderRow == 10

ProgramHeaderRow == 2

DefaultHeaderRow == 0

IsVacation(sheet_name) == Contains(ToLowercase(sheet_name), Vacation)

\* as HeaderRowIndex, with "program" tested before "pipeline"
HeaderRowIndexProgramFirst(sheet_name) ==
    IF /\ Contains(ToLowercase(sheet_name), Program)
       /\ ~Contains(ToLowercase(sheet_name), Vacation)
    THEN ProgramHeaderRow
    ELSE IF Contains(ToLowercase(sheet_name), Pipeline) THEN PipelineHeaderRow
    ELSE DefaultHeaderRow

HeaderRowIndex(sheet_name) ==
    IF Contains(ToLowercase(sheet_name), Pipeline) THEN PipelineHeaderRow
    ELSE IF /\ Contains(ToLowercase(sheet_name), Program)
            /\ ~Contains(ToLowercase(sheet_name), Vacation)
         THEN ProgramHeaderRow
    ELSE DefaultHeaderRow

HeaderString(v) ==
    CASE v.t = "Text"   -> v.v
      [] v.t = "Number" -> F64ToString(v.v)
      [] OTHER          -> <<>>

ColLabel(i) == <<"C","o","l">> \o NatToStr(i)

\* the body of the loop over the sheets: one worksheet to one ExcelData
ReadSheet(sheet_name, grid) ==
    LET range == WorksheetRange(grid)
        rows  == [r \in 1..Len(range) |->
                    [c \in 1..Len(range[r]) |-> From(range[r][c])]]
        idx   == HeaderRowIndex(sheet_name)
        hdr   == IF idx < Len(rows) /\ ~IsVacation(sheet_name)
                 THEN [c \in 1..Len(rows[idx + 1]) |-> HeaderString(rows[idx + 1][c])]
                 ELSE <<>>
        headers == IF IsVacation(sheet_name) /\ hdr = <<>> /\ rows # <<>>
                   THEN [c \in 1..Len(rows[1]) |-> ColLabel(c - 1)]
                   ELSE hdr
    IN  ExcelData(headers, rows, sheet_name)

Err == [ok |-> FALSE, val |-> <<>>]

Ok(v) == [ok |-> TRUE, val |-> v]

read_excel_file(f) ==
    IF f.st # "xlsx" THEN Err
    ELSE Ok([i \in 1..Len(f.wb) |-> ReadSheet(f.wb[i].name, f.wb[i].grid)])

---------------------------------------------------------------------------
(* write_excel_file *)

MaxSheetNameLen == 31

BadNameChars == {"[", "]", ":", "*", "?", "/", "\\"}

\* Worksheet::set_name
SheetNameValid(name) ==
    /\ name # <<>>
    /\ Len(name) <= MaxSheetNameLen
    /\ \A i \in 1..Len(name) : name[i] \notin BadNameChars
    /\ name[1] # "'" /\ name[Len(name)] # "'"

\* Worksheet::write_string: an empty string stores no cell
StoreString(s) == IF s = <<>> THEN DEmpty ELSE DString(s)

\* Worksheet::write_number: a NaN or an infinity is stored as an error text
StoreNumber(f) ==
    CASE f.k = "fin" -> DFloat(f)
      [] f.k = "nan" -> DString(<<"#","N","U","M","!">>)
      [] f.k = "inf" -> DString(<<"#","D","I","V","/","0">>)

\* the match on the cell value in the loop over the data rows
StoreCell(v) ==
    CASE v.t = "Text"    -> StoreString(v.v)
      [] v.t = "Number"  -> StoreNumber(v.v)
      [] v.t = "Integer" -> StoreNumber(IntToF64(v.v))
      [] v.t = "Boolean" -> DBool(v.v)
      [] v.t = "Empty"   -> DEmpty

\* headers to row 0, data row i to row i + 1
WriteSheet(sheet_data) ==
    Worksheet(sheet_data.sheet_name,
        <<[c \in 1..Len(sheet_data.headers) |-> StoreString(sheet_data.headers[c])]>>
        \o [r \in 1..Len(sheet_data.rows) |->
              [c \in 1..Len(sheet_data.rows[r]) |-> StoreCell(sheet_data.rows[r][c])]])

\* the workbook built in memory before Workbook::save, or the error that
\* set_name returns
BuildWorkbook(data) ==
    IF \E i \in 1..Len(data) : ~SheetNameValid(data[i].sheet_name)
    THEN Err
    ELSE Ok([i \in 1..Len(data) |-> WriteSheet(data[i])])

---------------------------------------------------------------------------
(* The edit of the in-memory sheets: update_excel_cells and update_excel_cell. *)

True == <<"t","r","u","e">>

False == <<"f","a","l","s","e">>

\* as CoerceValue, comparing with "true" / "false" without lower-casing
CoerceValueCaseSensitive(value) ==
    IF ParseF64(value).ok THEN Number(ParseF64(value).val)
    ELSE IF value = True THEN Boolean(TRUE)
    ELSE IF value = False THEN Boolean(FALSE)
    ELSE IF value = <<>> THEN Empty
    ELSE Text(value)

\* the coercion of the edit string
CoerceValue(value) ==
    IF ParseF64(value).ok THEN Number(ParseF64(value).val)
    ELSE IF ToLowercase(value) = True THEN Boolean(TRUE)
    ELSE IF ToLowercase(value) = False THEN Boolean(FALSE)
    ELSE IF value = <<>> THEN Empty
    ELSE Text(value)

\* as EnsureRow, looping while sheet.rows.len() <= update.row
EnsureRowOneMore(sheet, row) ==
    IF Len(sheet.rows) <= row
    THEN [sheet EXCEPT !.rows =
            sheet.rows \o [i \in 1..(row + 1 - Len(sheet.rows)) |->
                              [c \in 1..Len(sheet.headers) |-> Empty]]]
    ELSE sheet

\* "Ensure the row exists": while sheet.rows.len() < update.row, push a row
\* of sheet.headers.len() Empty cells
EnsureRow(sheet, row) ==
    IF Len(sheet.rows) < row
    THEN [sheet EXCEPT !.rows =
            sheet.rows \o [i \in 1..(row - Len(sheet.rows)) |->
                              [c \in 1..Len(sheet.headers) |-> Empty]]]
    ELSE sheet

\* as EnsureColumn, padding every row of the sheet to the column
EnsureColumnPadsAll(sheet, row, column) ==
    [sheet EXCEPT !.rows =
        [r \in 1..Len(sheet.rows) |->
            IF Len(sheet.rows[r]) <= column
            THEN sheet.rows[r] \o [c \in 1..(column + 1 - Len(sheet.rows[r])) |-> Empty]
            ELSE sheet.rows[r]]]

\* "Ensure the column exists": while sheet.rows[row_idx].len() <= column,
\* push Empty to that row
EnsureColumn(sheet, row, column) ==
    IF Len(sheet.rows[row]) <= column
    THEN [sheet EXCEPT !.rows[row] =
            sheet.rows[row] \o [c \in 1..(column + 1 - Len(sheet.rows[row])) |-> Empty]]
    ELSE sheet

\* as SetCell, the value stored in every cell of the row up to the column
SetCellFillsRow(sheet, row, column, v) ==
    IF column < Len(sheet.rows[row])
    THEN [sheet EXCEPT !.rows[row] =
            [c \in 1..Len(sheet.rows[row]) |->
                IF c <= column + 1 THEN v ELSE sheet.rows[row][c]]]
    ELSE sheet

\* "Update the cell value"
SetCell(sheet, row, column, v) ==
    IF column < Len(sheet.rows[row])
    THEN [sheet EXCEPT !.rows[row][column + 1] = v]
    ELSE sheet

\* as ApplyUpdate, without the test update.row > 0: row 0 is taken for the
\* first row
ApplyUpdateRowZeroFirst(sheet, update) ==
    LET grown == EnsureRow(sheet, Max(update.row, 1))
    IN  SetCell(EnsureColumn(grown, Max(update.row, 1), update.column),
                Max(update.row, 1), update.column, CoerceValue(update.value))

\* the body of the loop over the updates, for the sheet that matched
ApplyUpdate(sheet, update) ==
    LET grown == EnsureRow(sheet, update.row)
    IN  IF update.row > 0 /\ update.row <= Len(grown.rows)
        THEN SetCell(EnsureColumn(grown, update.row, update.column),
                     update.row, update.column, CoerceValue(update.value))
        ELSE grown

\* as UpdateAt, visiting the updates from the last to the first
UpdateAtReversed(updates, i) == updates[Len(updates) + 1 - i]

\* the i-th update the loop "for update in &updates" visits
UpdateAt(updates, i) == updates[i]

\* the loop over the updates, for the sheet that matched
RECURSIVE ApplyAll(_, _)
ApplyAll(sheet, updates) ==
    IF updates = <<>> THEN sheet
    ELSE ApplyAll(ApplyUpdate(sheet, Head(updates)), Tail(updates))

\* update_excel_cells between read_excel_file and write_excel_file
BatchEdit(all_sheets, sheet_name, updates) ==
    [k \in 1..Len(all_sheets) |->
        IF all_sheets[k].sheet_name = sheet_name
        THEN ApplyAll(all_sheets[k], updates)
        ELSE all_sheets[k]]

\* the body of update_excel_cell's loop over the sheets
UpdateCellIn(sheet, sheet_name, row, col, value) ==
    IF /\ sheet.sheet_name = sheet_name
       /\ row > 0 /\ row <= Len(sheet.rows)
       /\ col < Len(sheet.rows[row])
    THEN [sheet EXCEPT !.rows[row][col + 1] = value]
    ELSE sheet

---------------------------------------------------------------------------
(* Workbooks the file may hold before the first command, and the inputs    *)
(* of the commands.                                                        *)

NData == <<"D","a","t","a">>

NLog == <<"L","o","g">>

NBlank == <<"B","l","a","n","k">>

NProgram == <<"P","r","o","g","r","a","m"," ","P","l","a","n">>

NVacation == <<"V","a","c","a","t","i","o","n">>

NPipeline == <<"R","e","s"," ","P","I","P","E","L","I","N","E">>

NPipeProg == <<"p","r","o","g","r","a","m"," ","P","i","p","e","l","i","n","e">>

NVacProg == <<"P","r","o","g","r","a","m"," ","V","a","c","a","t","i","o","n">>

NVacPipe == <<"v","a","c","a","t","i","o","n"," ","P","i","p","e","l","i","n","e">>

NShort == <<"P","i","p","e","l","i","n","e">>

NNone == <<"N","o","n","e">>

NBad == <<"a","/","b">>

\* an n x w table of distinct cells, texts and numbers
Table(n, w) ==
    [r \in 1..n |-> [c \in 1..w |->
        IF (r + c) % 3 = 0 THEN DFloat(IntToF64(10 * r + c))
        ELSE DString(<<"r">> \o NatToStr(r - 1) \o <<"c">> \o NatToStr(c - 1))]]

DataGrid ==
    << <<DString(<<"A">>), DString(<<"B">>)>>,
       <<DFloat(Fin(FALSE, 15, 1)), DBool(TRUE)>> >>

\* cells that start below row 0 and right of column 0, of every kind
LogGrid ==
    << <<>>,
       <<DEmpty, DFloat(IntToF64(2)), DError>>,
       <<DEmpty, DDateTime(IntToF64(45000)), DInt(3), DDateTimeIso(<<"2","0","2","4">>)>>,
       <<DEmpty, DEmpty, DDurationIso(<<"P","T","1","H">>)>> >>

InitFiles ==
    { Missing, Invalid,
      Xlsx(<<Worksheet(NData, DataGrid)>>),
      Xlsx(<<Worksheet(NProgram, Table(4, 2)), Worksheet(NVacation, Table(1, 2))>>),
      Xlsx(<<Worksheet(NPipeline, Table(12, 1))>>),
      Xlsx(<<Worksheet(NPipeProg, Table(12, 1)), Worksheet(NVacProg, Table(3, 2)),
             Worksheet(NVacPipe, Table(2, 1))>>),
      Xlsx(<<Worksheet(NLog, LogGrid), Worksheet(NBlank, <<>>)>>),
      Xlsx(<<Worksheet(NShort, Table(3, 1))>>) }

\* sheets a UI layer passes to write_excel that it did not read from the file
FrontendData ==
    { <<ExcelData(<<<<"H">>>>, << <<Text(<<"x">>), Integer(5)>>,
                                  <<Empty, Number(Fin(FALSE, 15, 1))>> >>, NData)>>,
      <<ExcelData(<<>>, <<>>, NBad)>> }

EditValues == {<<"7">>, <<"N","o">>}

CellValues == {CoerceValue(s) : s \in EditValues} \cup {Integer(7)}

UpdateRows == {0, 1, MaxRow}

UpdateCols == {0, MaxCol}

Updates == {CellUpdate(r, c, s) : r \in UpdateRows, c \in UpdateCols, s \in EditValues}

Batches == UNION {[1..n -> Updates] : n \in 0..MaxBatch}

SheetNamesOf(f) == {f.wb[i].name : i \in 1..Len(f.wb)}

\* the names an edit is asked for: the file's and the lower-cased form of
\* the first of them, which no file here has
RequestedNames(f) ==
    IF f.st = "xlsx"
    THEN SheetNamesOf(f) \cup {ToLowercase(f.wb[i].name) : i \in 1..Min(1, Len(f.wb))}
    ELSE {NNone}

---------------------------------------------------------------------------
(* The project notes: one text file per project in "project_notes".        *)

\* the directory before the first save: no file
NoNotes == [name \in {} |-> <<>>]

\* as Sanitize, a '\' left as it is
SanitizeSlashOnly(project_id) ==
    [i \in 1..Len(project_id) |->
        IF project_id[i] = "/" THEN "_" ELSE project_id[i]]

\* project_id.replace("/", "_").replace("\\", "_")
Sanitize(project_id) ==
    [i \in 1..Len(project_id) |->
        IF project_id[i] \in {"/", "\\"} THEN "_" ELSE project_id[i]]

\* format!("{}.txt", safe_filename)
NoteFile(project_id) == Sanitize(project_id) \o <<".","t","x","t">>

\* fs::write(&file_path, notes): the file is created or replaced
save_project_notes(dir, project_id, notes) ==
    [name \in DOMAIN dir \cup {NoteFile(project_id)} |->
        IF name = NoteFile(project_id) THEN notes ELSE dir[name]]

\* the file's content if file_path.exists(), else String::new()
load_project_notes(dir, project_id) ==
    IF NoteFile(project_id) \in DOMAIN dir
    THEN dir[NoteFile(project_id)]
    ELSE <<>>

ProjectIds ==
    { <<"p","/","q">>, <<"p","\\","q">>, <<"p","_","q">>, <<"p","q">>,
      <<"/">>, <<"_">>, <<>> }

NoteTexts == { <<>>, <<"x">>, <<"y">> }

---------------------------------------------------------------------------
(* The commands.  A command runs from its invocation to its return; the    *)
(* batch edit takes one step per update, and write_excel_file one step.    *)

Procs == {"a", "b"}

NoCall == [cmd |-> "none", sheet_name |-> <<>>, row |-> 0, col |-> 0,
           value |-> Empty, updates |-> <<>>, i |-> 0, roundtrip |-> FALSE,
           opened |-> Missing, project_id |-> <<>>, notes |-> <<>>]

NoResult == [cmd |-> "none", ok |-> TRUE, val |-> <<>>]

Returned(cmd, ok, val) == [cmd |-> cmd, ok |-> ok, val |-> val]

NoOut == [t |-> "none", v |-> <<>>]

\* a behaviour holds at most MaxCalls commands, and no command after an edit
CanCall(p) == pc[p] = "idle" /\ ncalls < MaxCalls /\ ~edited

EditCmds == {"update_cell", "update_excel_cells"}

Init ==
    /\ file \in InitFiles
    /\ pc = [p \in Procs |-> "idle"]
    /\ call = [p \in Procs |-> NoCall]
    /\ sheets = [p \in Procs |-> <<>>]
    /\ result = [p \in Procs |-> NoResult]
    /\ ncalls = 0
    /\ edited = FALSE
    /\ produced = FALSE
    /\ project_notes = NoNotes
    /\ arg = <<>>
    /\ out = NoOut

\* read_excel
ReadExcel(p) ==
    /\ CanCall(p)
    /\ ncalls' = ncalls + 1
    /\ call' = [call EXCEPT ![p] = [NoCall EXCEPT !.cmd = "read_excel"]]
    /\ \E r \in {read_excel_file(file)} :
          result' = [result EXCEPT ![p] = Returned("read_excel", r.ok, r.val)]
    /\ UNCHANGED <<file, pc, sheets, edited, produced, arg, out, project_notes>>

\* what a UI layer passes to write_excel: the sheets it read from the file
\* (roundtrip), or sheets of its own
WriteExcelInputs ==
    {[data |-> r.val, roundtrip |-> TRUE] : r \in {read_excel_file(file)} \ {Err}}
    \cup {[data |-> d, roundtrip |-> FALSE] : d \in FrontendData}

\* write_excel, up to the call of write_excel_file
WriteExcel(p) ==
    /\ CanCall(p)
    /\ ncalls' = ncalls + 1
    /\ \E in \in WriteExcelInputs :
          /\ call' = [call EXCEPT ![p] =
                [NoCall EXCEPT !.cmd = "write_excel", !.roundtrip = in.roundtrip]]
          /\ sheets' = [sheets EXCEPT ![p] = in.data]
    /\ pc' = [pc EXCEPT ![p] = "write"]
    /\ result' = [result EXCEPT ![p] = NoResult]
    /\ UNCHANGED <<file, edited, produced, arg, out, project_notes>>

\* update_cell -> update_excel_cell, up to the call of write_excel_file
UpdateCell(p) ==
    /\ CanCall(p)
    /\ ncalls' = ncalls + 1
    /\ \E r \in {read_excel_file(file)} :
       \E sheet_name \in RequestedNames(file), row \in UpdateRows,
          col \in UpdateCols, value \in CellValues :
          /\ call' = [call EXCEPT ![p] =
                [NoCall EXCEPT !.cmd = "update_cell", !.sheet_name = sheet_name,
                               !.row = row, !.col = col, !.value = value,
                               !.opened = file]]
          /\ IF r.ok
             THEN /\ sheets' = [sheets EXCEPT ![p] =
                        [k \in 1..Len(r.val) |->
                            UpdateCellIn(r.val[k], sheet_name, row, col, value)]]
                  /\ pc' = [pc EXCEPT ![p] = "write"]
                  /\ result' = [result EXCEPT ![p] = NoResult]
                  /\ UNCHANGED edited
             ELSE /\ result' = [result EXCEPT ![p] =
                        Returned("update_cell", FALSE, <<>>)]
                  /\ edited' = TRUE
                  /\ UNCHANGED <<pc, sheets>>
    /\ UNCHANGED <<file, produced, arg, out, project_notes>>

\* update_excel_cells, up to the loop over the updates, r being what
\* read_excel_file returns
UpdateExcelCellsWith(p, r, sheet_name, updates) ==
    /\ call' = [call EXCEPT ![p] =
          [NoCall EXCEPT !.cmd = "update_excel_cells",
                         !.sheet_name = sheet_name,
                         !.updates = updates, !.i = 1, !.opened = file]]
    /\ IF r.ok
       THEN /\ sheets' = [sheets EXCEPT ![p] = r.val]
            /\ pc' = [pc EXCEPT ![p] =
                  IF updates = <<>> THEN "write" ELSE "apply"]
            /\ result' = [result EXCEPT ![p] = NoResult]
            /\ UNCHANGED edited
       ELSE /\ result' = [result EXCEPT ![p] =
                  Returned("update_excel_cells", FALSE, <<>>)]
            /\ edited' = TRUE
            /\ UNCHANGED <<pc, sheets>>
    /\ UNCHANGED <<file, produced, arg, out, project_notes>>

UpdateExcelCells(p) ==
    /\ CanCall(p)
    /\ ncalls' = ncalls + 1
    /\ \E r \in {read_excel_file(file)} :
       \E sheet_name \in RequestedNames(file), updates \in Batches :
          UpdateExcelCellsWith(p, r, sheet_name, updates)

\* one pass of "for update in &updates", on every sheet of that name
ApplyStep(p) ==
    /\ pc[p] = "apply"
    /\ sheets' = [sheets EXCEPT ![p] =
          [k \in 1..Len(sheets[p]) |->
              IF sheets[p][k].sheet_name = call[p].sheet_name
              THEN ApplyUpdate(sheets[p][k], UpdateAt(call[p].updates, call[p].i))
              ELSE sheets[p][k]]]
    /\ call' = [call EXCEPT ![p].i = call[p].i + 1]
    /\ pc' = [pc EXCEPT ![p] =
          IF call[p].i = Len(call[p].updates) THEN "write" ELSE "apply"]
    /\ UNCHANGED <<file, result, ncalls, edited, produced, arg, out, project_notes>>

Return(p, ok) ==
    /\ result' = [result EXCEPT ![p] = Returned(call[p].cmd, ok, <<>>)]
    /\ pc' = [pc EXCEPT ![p] = "idle"]
    /\ edited' = (edited \/ call[p].cmd \in EditCmds)
    /\ UNCHANGED <<call, sheets, ncalls, arg, out, project_notes>>

\* write_excel_file: set_name refuses a sheet name, nothing is saved
WriteNameErr(p) ==
    /\ pc[p] = "write"
    /\ ~BuildWorkbook(sheets[p]).ok
    /\ Return(p, FALSE)
    /\ UNCHANGED <<file, produced>>

\* as Save, creating the file only where there is none (create_new)
SaveCreateNew(current, built) ==
    IF current.st = "missing" THEN Xlsx(built) ELSE current

\* Workbook::save on a path that holds current: the file is created anew,
\* whatever it held, and the workbook written to it
Save(current, built) == Xlsx(built)

\* write_excel_file: the workbook is built and Workbook::save writes it
WriteSave(p) ==
    /\ pc[p] = "write"
    /\ \E built \in {BuildWorkbook(sheets[p])} :
          /\ built.ok
          /\ file' = Save(file, built.val)
    /\ produced' = TRUE
    /\ Return(p, TRUE)

\* write_excel_file: Workbook::save cannot create the file
WriteCreateErr(p) ==
    /\ pc[p] = "write"
    /\ BuildWorkbook(sheets[p]).ok
    /\ Return(p, FALSE)
    /\ UNCHANGED <<file, produced>>

\* write_excel_file: Workbook::save creates the file, which truncates it,
\* and fails before all of it is written
WriteTornErr(p) ==
    /\ pc[p] = "write"
    /\ BuildWorkbook(sheets[p]).ok
    /\ file' = Invalid
    /\ produced' = FALSE
    /\ Return(p, FALSE)

Step(p) ==
    \/ ReadExcel(p)
    \/ WriteExcel(p)
    \/ UpdateCell(p)
    \/ UpdateExcelCells(p)
    \/ ApplyStep(p)
    \/ WriteNameErr(p)
    \/ WriteSave(p)
    \/ WriteCreateErr(p)
    \/ WriteTornErr(p)

\* the commands invoked one after the other, by one caller
Next == \E p \in {"a"} : Step(p)

Spec == Init /\ [][Next]_vars

---------------------------------------------------------------------------
(* Two callers of update_excel_cells on the same path.  The commands are   *)
(* async and nothing orders them: each caller invokes the command once, at *)
(* any time, and the reads, the loops and the saves of the two interleave. *)

RaceFiles ==
    { Xlsx(<<Worksheet(NData, DataGrid)>>),
      Xlsx(<<Worksheet(NProgram, Table(4, 2)), Worksheet(NVacation, Table(1, 2))>>) }

RaceUpdates ==
    { CellUpdate(1, 0, <<"7">>), CellUpdate(1, MaxCol, <<"N","o">>),
      CellUpdate(MaxRow, 0, <<"7">>) }

RaceBatches == UNION {[1..n -> RaceUpdates] : n \in 1..MaxBatch}

InitRace ==
    /\ file \in RaceFiles
    /\ pc = [p \in Procs |-> "idle"]
    /\ call = [p \in Procs |-> NoCall]
    /\ sheets = [p \in Procs |-> <<>>]
    /\ result = [p \in Procs |-> NoResult]
    /\ ncalls = 0
    /\ edited = FALSE
    /\ produced = FALSE
    /\ project_notes = NoNotes
    /\ arg = <<>>
    /\ out = NoOut

\* update_excel_cells invoked by a caller that has not invoked it yet
ConcurrentUpdate(p) ==
    /\ pc[p] = "idle"
    /\ call[p] = NoCall
    /\ ncalls' = ncalls + 1
    /\ \E r \in {read_excel_file(file)} :
       \E sheet_name \in SheetNamesOf(file), updates \in RaceBatches :
          UpdateExcelCellsWith(p, r, sheet_name, updates)

RaceStep(p) ==
    \/ ConcurrentUpdate(p)
    \/ ApplyStep(p)
    \/ WriteSave(p)

NextRace == \E p \in Procs : RaceStep(p)

SpecRace == InitRace /\ [][NextRace]_vars

---------------------------------------------------------------------------
(* The notes commands, one after the other, with no I/O failure.           *)

InitNotes ==
    /\ file = Missing
    /\ pc = [p \in Procs |-> "idle"]
    /\ call = [p \in Procs |-> NoCall]
    /\ sheets = [p \in Procs |-> <<>>]
    /\ result = [p \in Procs |-> NoResult]
    /\ ncalls = 0
    /\ edited = FALSE
    /\ produced = FALSE
    /\ project_notes = NoNotes
    /\ arg = <<>>
    /\ out = NoOut

SaveProjectNotes(p) ==
    /\ pc[p] = "idle"
    /\ ncalls < MaxNoteCalls
    /\ ncalls' = ncalls + 1
    /\ \E project_id \in ProjectIds, notes \in NoteTexts :
          /\ call' = [call EXCEPT ![p] =
                [NoCall EXCEPT !.cmd = "save_project_notes",
                               !.project_id = project_id, !.notes = notes]]
          /\ project_notes' = save_project_notes(project_notes, project_id, notes)
    /\ result' = [result EXCEPT ![p] = Returned("save_project_notes", TRUE, <<>>)]
    /\ UNCHANGED <<file, pc, sheets, edited, produced, arg, out>>

LoadProjectNotes(p) ==
    /\ pc[p] = "idle"
    /\ ncalls < MaxNoteCalls
    /\ ncalls' = ncalls + 1
    /\ \E project_id \in ProjectIds :
          /\ call' = [call EXCEPT ![p] =
                [NoCall EXCEPT !.cmd = "load_project_notes",
                               !.project_id = project_id]]
          /\ result' = [result EXCEPT ![p] =
                Returned("load_project_notes", TRUE,
                         load_project_notes(project_notes, project_id))]
    /\ UNCHANGED <<file, pc, sheets, edited, produced, arg, out, project_notes>>

NotesStep(p) ==
    \/ SaveProjectNotes(p)
    \/ LoadProjectNotes(p)

NextNotes == \E p \in {"a"} : NotesStep(p)

SpecNotes == InitNotes /\ [][NextNotes]_vars

---------------------------------------------------------------------------
(* The coercion of an edit string, on strings of every shape: one update   *)
(* of row 1, column 0 applied to an empty sheet, and the cell it stores.   *)

CoerceAlphabet == {"1", ".", "-", "e", "t", "N"}

CoerceInputs ==
    UNION {[1..n -> CoerceAlphabet] : n \in 0..MaxStrLen}
    \cup { True, False, <<"T","R","U","E">>, <<"T","r","u","e">>,
           <<"F","A","L","S","E">>, <<"f","a","l","s","E">>,
           <<" ","t","r","u","e">>, <<"t","r","u","e","e">>,
           <<"i","n","f">>, <<"-","I","n","f","i","n","i","t","y">>,
           <<"N","a","N">>, <<"N","/","A">>, <<"3",".","1","4">>,
           <<"1","E","2">>, <<"+","0",".","5">>, <<"1","e","-","2">>, <<" ">> }

InitCoerce ==
    /\ arg \in CoerceInputs
    /\ out = NoOut
    /\ file = Missing
    /\ pc = [p \in Procs |-> "idle"]
    /\ call = [p \in Procs |-> NoCall]
    /\ sheets = [p \in Procs |-> <<>>]
    /\ result = [p \in Procs |-> NoResult]
    /\ ncalls = 0
    /\ edited = FALSE
    /\ produced = FALSE
    /\ project_notes = NoNotes

CoerceEdit ==
    /\ out = NoOut
    /\ out' = ApplyUpdate(ExcelData(<<>>, <<>>, NData), CellUpdate(1, 0, arg)).rows[1][1]
    /\ UNCHANGED <<file, pc, call, sheets, result, ncalls, edited, produced, arg,
                   project_notes>>

NextCoerce == CoerceEdit

SpecCoerce == InitCoerce /\ [][NextCoerce]_vars

---------------------------------------------------------------------------
(* The conversion of a cell of the parser to a cell value, on cells of     *)
(* every kind.                                                             *)

RawStrings == UNION {[1..n -> {"a", "1", "-"}] : n \in 0..MaxStrLen}

RawFloats == {Fin(neg, m, e) : neg \in BOOLEAN, m \in {0, 1, 25, 45000}, e \in {0, 2}}

RawCells ==
    {DString(s) : s \in RawStrings}
    \cup {DFloat(f) : f \in RawFloats}
    \cup {DInt(i) : i \in -2..2}
    \cup {DBool(b) : b \in BOOLEAN}
    \cup {DEmpty, DError}
    \cup {DDateTime(f) : f \in RawFloats}
    \cup {DDateTimeIso(s) : s \in RawStrings}
    \cup {DDurationIso(s) : s \in RawStrings}

InitFrom ==
    /\ arg \in RawCells
    /\ out = NoOut
    /\ file = Missing
    /\ pc = [p \in Procs |-> "idle"]
    /\ call = [p \in Procs |-> NoCall]
    /\ sheets = [p \in Procs |-> <<>>]
    /\ result = [p \in Procs |-> NoResult]
    /\ ncalls = 0
    /\ edited = FALSE
    /\ produced = FALSE
    /\ project_notes = NoNotes

\* DataValue::from(cell.clone())
FromCell ==
    /\ out = NoOut
    /\ out' = From(arg)
    /\ UNCHANGED <<file, pc, call, sheets, result, ncalls, edited, produced, arg,
                   project_notes>>

NextFrom == FromCell

SpecFrom == InitFrom /\ [][NextFrom]_vars

---------------------------------------------------------------------------
(* The claims. *)

\* what read_excel_file sees in the file that write_excel_file saves for data
SavedAs(data) == read_excel_file(Xlsx(BuildWorkbook(data).val))

\* caller p is in write_excel_file and returns from it with Ok
SavesOk(p) == pc[p] = "write" /\ pc'[p] = "idle" /\ result'[p].ok

RemoveAt(s, i) == SubSeq(s, 1, i - 1) \o SubSeq(s, i + 1, Len(s))

SameCell(u, w) == u.row = w.row /\ u.column = w.column

\* C1: re-saving, unchanged, what read_excel_file reads from a file that
\* write_excel_file produced gives a file with the same sheet names, headers
\* and rows
C1_RoundTripIdempotent ==
    [][\A p \in Procs :
          (SavesOk(p) /\ call[p].cmd = "write_excel" /\ call[p].roundtrip /\ produced)
          => read_excel_file(file') = read_excel_file(file)]_vars

\* C2: at the save of update_excel_cell, the sheets are those that
\* update_excel_cells makes of the same file with the one-element batch of
\* that row, column and value
C2_SingleCellIsOneElementBatch ==
    \A p \in Procs :
        (pc[p] = "write" /\ call[p].cmd = "update_cell")
        => \A s \in EditValues :
              CoerceValue(s) = call[p].value
              => SavedAs(sheets[p]) =
                    SavedAs(BatchEdit(read_excel_file(file).val, call[p].sheet_name,
                               <<CellUpdate(call[p].row, call[p].col, s)>>))

\* C3: a read followed by a save writes, for every sheet, the headers as row 0
\* and below them the rows without the row the headers were taken from
C3_SaveDiscardsHeaderRow ==
    [][\A p \in Procs :
          (SavesOk(p) /\ call[p].cmd = "write_excel" /\ call[p].roundtrip)
          => \A k \in 1..Len(sheets[p]) :
                LET d   == sheets[p][k]
                    idx == HeaderRowIndex(d.sheet_name)
                    data == IF ~IsVacation(d.sheet_name) /\ idx < Len(d.rows)
                            THEN RemoveAt(d.rows, idx + 1)
                            ELSE d.rows
                IN  file'.wb[k] = WriteSheet(ExcelData(d.headers, data, d.sheet_name))]_vars

\* C4: an edit that names a sheet the workbook does not have and returns Ok
\* leaves the sheet names, headers and rows read from the file as they were
C4_AbsentSheetEditChangesNothing ==
    [][\A p \in Procs :
          (/\ SavesOk(p) /\ call[p].cmd \in EditCmds
           /\ call[p].sheet_name \notin SheetNamesOf(file))
          => read_excel_file(file') = read_excel_file(file)]_vars

\* C5: when the whole batch has been applied, every cell (row >= 1, column)
\* that the batch targets holds the coercion of the value of the last update
\* of the batch that targets it
C5_LastWriteWins ==
    \A p \in Procs :
        (pc[p] = "write" /\ call[p].cmd = "update_excel_cells")
        => \A k \in 1..Len(sheets[p]) :
              sheets[p][k].sheet_name = call[p].sheet_name
              => \A j \in 1..Len(call[p].updates) :
                    LET u == call[p].updates[j]
                    IN  (/\ u.row >= 1
                         /\ \A l \in (j + 1)..Len(call[p].updates) :
                               ~SameCell(call[p].updates[l], u))
                        => /\ u.row <= Len(sheets[p][k].rows)
                           /\ u.column < Len(sheets[p][k].rows[u.row])
                           /\ sheets[p][k].rows[u.row][u.column + 1] = CoerceValue(u.value)

C5_Witness ==
    \E p \in Procs :
        /\ pc[p] = "write" /\ call[p].cmd = "update_excel_cells"
        /\ Len(call[p].updates) >= 2
        /\ call[p].updates[1].row >= 1
        /\ SameCell(call[p].updates[1], call[p].updates[2])
        /\ CoerceValue(call[p].updates[1].value) # CoerceValue(call[p].updates[2].value)
        /\ \E k \in 1..Len(sheets[p]) : sheets[p][k].sheet_name = call[p].sheet_name

\* C6: an update of row r >= 1 applied to a sheet of n rows leaves max(n, r)
\* rows, every appended row but the target one being headers.len() Empty
\* cells; an update of a row <= n leaves n rows
C6_EnsureRowGrowth ==
    [][\A p \in Procs :
          pc[p] = "apply"
          => \A k \in 1..Len(sheets[p]) :
                sheets[p][k].sheet_name = call[p].sheet_name
                => LET u   == call[p].updates[call[p].i]
                       old == sheets[p][k]
                       new == sheets'[p][k]
                       n   == Len(old.rows)
                   IN  /\ u.row >= 1 =>
                            /\ Len(new.rows) = Max(n, u.row)
                            /\ \A r \in (n + 1)..Len(new.rows) :
                                  r # u.row
                                  => new.rows[r] = [c \in 1..Len(old.headers) |-> Empty]
                       /\ u.row <= n => Len(new.rows) = n
                       /\ Len(new.rows) >= n]_vars

C6_Witness ==
    \E p \in Procs :
        /\ pc[p] \in {"apply", "write"} /\ call[p].cmd = "update_excel_cells"
        /\ call[p].i = 2
        /\ \E k \in 1..Len(sheets[p]) :
              /\ sheets[p][k].sheet_name = call[p].sheet_name
              /\ Len(sheets[p][k].headers) >= 1
              /\ call[p].updates[1].row >= Len(read_excel_file(file).val[k].rows) + 2
              /\ Len(sheets[p][k].rows) = call[p].updates[1].row

\* C7: an update (row r >= 1, column c) leaves the target row with
\* max(previous length, c + 1) cells, the added cells before column c being
\* Empty, and leaves every other row that existed as it was
C7_EnsureColumnRagged ==
    [][\A p \in Procs :
          pc[p] = "apply"
          => \A k \in 1..Len(sheets[p]) :
                sheets[p][k].sheet_name = call[p].sheet_name
                => LET u    == call[p].updates[call[p].i]
                       old  == sheets[p][k]
                       new  == sheets'[p][k]
                       n    == Len(old.rows)
                       prev == IF u.row <= n THEN Len(old.rows[u.row])
                               ELSE Len(old.headers)
                   IN  u.row >= 1 =>
                          /\ Len(new.rows[u.row]) = Max(prev, u.column + 1)
                          /\ \A c \in (prev + 1)..u.column : new.rows[u.row][c] = Empty
                          /\ \A r \in 1..n : r # u.row => new.rows[r] = old.rows[r]]_vars

C7_Witness ==
    \E p \in Procs :
        /\ pc[p] \in {"apply", "write"} /\ call[p].cmd = "update_excel_cells"
        /\ call[p].i = 2
        /\ \E k \in 1..Len(sheets[p]) :
              LET u   == call[p].updates[1]
                  old == read_excel_file(file).val[k]
              IN  /\ sheets[p][k].sheet_name = call[p].sheet_name
                  /\ u.row >= 1 /\ u.row <= Len(old.rows)
                  /\ Len(old.rows[u.row]) <= u.column
                  /\ Len(sheets[p][k].rows[u.row]) = u.column + 1
                  /\ \E r \in 1..Len(old.rows) :
                        r # u.row /\ Len(sheets[p][k].rows[r]) <= u.column

C9_HeaderRowSelection ==
    \A p \in Procs :
        (result[p].cmd = "read_excel" /\ result[p].ok)
        => \A k \in 1..Len(result[p].val) :
              LET d   == result[p].val[k]
                  low == ToLowercase(d.sheet_name)
                  RowHeaders(i) ==
                      IF i < Len(d.rows)
                      THEN [c \in 1..Len(d.rows[i + 1]) |-> HeaderString(d.rows[i + 1][c])]
                      ELSE <<>>
                  width == IF d.rows = <<>> THEN 0 ELSE Len(d.rows[1])
              IN  IF Contains(low, <<"v","a","c","a","t","i","o","n">>)
                  THEN d.headers = [c \in 1..width |-> ColLabel(c - 1)]
                  ELSE IF Contains(low, <<"p","i","p","e","l","i","n","e">>)
                  THEN d.headers = RowHeaders(10)
                  ELSE IF Contains(low, <<"p","r","o","g","r","a","m">>)
                  THEN d.headers = RowHeaders(2)
                  ELSE d.headers = RowHeaders(0)

C9_Witness ==
    \E p \in Procs :
        /\ result[p].cmd = "read_excel" /\ result[p].ok
        /\ \E k \in 1..Len(result[p].val) :
              LET d == result[p].val[k]
              IN  /\ Contains(ToLowercase(d.sheet_name), Pipeline)
                  /\ Contains(ToLowercase(d.sheet_name), Program)
                  /\ Len(d.rows) > 10
                  /\ d.headers # <<>>
                  /\ d.headers[1] = HeaderString(d.rows[11][1])

\* C10: an edit command either returns Ok with the whole batch applied to
\* what it read and saved, or returns an error with the file as it was
C10_AllOrNothing ==
    [][\A p \in Procs :
          (/\ call'[p].cmd \in EditCmds /\ pc'[p] = "idle"
           /\ (pc[p] # "idle" \/ ncalls' # ncalls))
          => IF result'[p].ok
             THEN /\ file' = Xlsx(BuildWorkbook(sheets[p]).val)
                  /\ call[p].cmd = "update_excel_cells"
                     => sheets[p] = BatchEdit(read_excel_file(file).val,
                                        call[p].sheet_name, call[p].updates)
             ELSE file' = file]_vars


\* caller p has returned Ok from update_excel_cells
EditedOk(p) ==
    /\ pc[p] = "idle"
    /\ result[p].cmd = "update_excel_cells"
    /\ result[p].ok

\* what update_excel_cells saves when caller p's call runs alone on the file
\* it opened
AloneOn(p) ==
    Xlsx(BuildWorkbook(BatchEdit(read_excel_file(call[p].opened).val,
                                 call[p].sheet_name, call[p].updates)).val)

\* C11: of two update_excel_cells calls on the same path no one returns an
\* error, and when both opened the file before either saved it, the save
\* that comes last leaves the file that its call alone makes of the file it
\* opened: the edits of the other call are not in it
C11_LostUpdate ==
    /\ [](\A p \in Procs : result[p].ok)
    /\ [][\A p \in Procs, q \in Procs :
            (/\ p # q
             /\ SavesOk(p)
             /\ EditedOk(q)
             /\ call[p].opened = call[q].opened)
            => file' = AloneOn(p)]_vars

\* both calls opened the same file and returned Ok, the file is the one the
\* call of p saved, and a cell that the call of q set is not in it
C11_Witness ==
    \E p \in Procs, q \in Procs :
        /\ p # q
        /\ EditedOk(p) /\ EditedOk(q)
        /\ call[p].opened = call[q].opened
        /\ file = AloneOn(p)
        /\ \E k \in 1..Len(sheets[q]), u \in {call[q].updates[j] : j \in 1..Len(call[q].updates)} :
              /\ sheets[q][k].sheet_name = call[q].sheet_name
              /\ sheets[q][k].rows[u.row][u.column + 1] = CoerceValue(u.value)
              /\ \/ Len(sheets[p][k].rows) < u.row
                 \/ Len(sheets[p][k].rows[u.row]) <= u.column
                 \/ sheets[p][k].rows[u.row][u.column + 1] # CoerceValue(u.value)


\* C12: a string cell of the parser becomes Text, a float Number, an
\* integer Integer, a boolean Boolean, an empty or error cell Empty, and a
\* cell of any date-time or duration kind, the native date-time included,
\* becomes a Text, never a Number
C12_ReadCoercion ==
    out # NoOut =>
        CASE arg.d = "String" -> out = Text(arg.v)
          [] arg.d = "Float"  -> out = Number(arg.v)
          [] arg.d = "Int"    -> out = Integer(arg.v)
          [] arg.d = "Bool"   -> out = Boolean(arg.v)
          [] arg.d \in {"Empty", "Error"} -> out = Empty
          [] arg.d \in {"DateTimeIso", "DurationIso"} -> out = Text(arg.v)
          [] arg.d = "DateTime" -> out.t = "Text"


\* C13: the first update of a batch, applied to the sheets as
\* read_excel_file returned them, when its row is 1 leaves the row that the
\* headers of the sheet were taken from as it was
C13_RowOneBelowHeader ==
    [][\A p \in Procs :
          (/\ pc[p] = "apply"
           /\ call[p].i = 1 /\ call'[p].i = 2
           /\ UpdateAt(call[p].updates, 1).row = 1)
          => \A k \in 1..Len(sheets[p]) :
                LET old == sheets[p][k]
                    idx == HeaderRowIndex(old.sheet_name)
                IN  (~IsVacation(old.sheet_name) /\ idx < Len(old.rows))
                    => sheets'[p][k].rows[idx + 1] = old.rows[idx + 1]]_vars


\* i and j are equal once every '/' and every '\' of them is a '_'
SameSanitized(i, j) ==
    /\ Len(i) = Len(j)
    /\ \A k \in 1..Len(i) : i[k] = j[k] \/ {i[k], j[k]} \subseteq {"/", "\\", "_"}

\* the notes load_project_notes would return for project_id
NotesOf(project_id) == load_project_notes(project_notes, project_id)

\* C14: before any save every id loads as the empty string; a save of
\* notes under an id makes every id of the same sanitized name load as those
\* notes and leaves what the other ids load as; a load returns Ok with the
\* notes of its id and writes nothing.  So a load returns the notes of the
\* most recent save under an id of the same sanitized name, or the empty
\* string
C14_ProjectNotes ==
    /\ \A j \in ProjectIds : NotesOf(j) = <<>>
    /\ [][\A p \in Procs :
            (ncalls' = ncalls + 1 /\ call'[p].cmd = "save_project_notes")
            => /\ result'[p].ok
               /\ \A j \in ProjectIds :
                     NotesOf(j)' = IF SameSanitized(j, call'[p].project_id)
                                   THEN call'[p].notes
                                   ELSE NotesOf(j)]_vars
    /\ [][\A p \in Procs :
            (ncalls' = ncalls + 1 /\ call'[p].cmd = "load_project_notes")
            => /\ result'[p] = Returned("load_project_notes", TRUE,
                                        NotesOf(call'[p].project_id))
               /\ project_notes' = project_notes]_vars

\* a load of an id that holds a separator has returned notes, those of the
\* one file there is, which has the sanitized name of the id
C14_Witness ==
    \E p \in Procs :
        /\ call[p].cmd = "load_project_notes"
        /\ Sanitize(call[p].project_id) # call[p].project_id
        /\ result[p].ok /\ result[p].val # <<>>
        /\ ncalls = MaxNoteCalls
        /\ Cardinality(DOMAIN project_notes) = 1


NotRowZero(u) == u.row # 0

\* C15: the pass of the loop for an update of row 0 leaves every sheet as it
\* was, rows, columns and cells, returns nothing and goes on to the next
\* update; and what the call then saves is what the batch without its
\* updates of row 0 makes of the file
C15_RowZeroSkipped ==
    /\ [][\A p \in Procs :
            (/\ pc[p] = "apply"
             /\ call'[p].i = call[p].i + 1
             /\ UpdateAt(call[p].updates, call[p].i).row = 0)
            => /\ sheets'[p] = sheets[p]
               /\ result'[p] = result[p]
               /\ pc'[p] = IF call[p].i = Len(call[p].updates)
                           THEN "write" ELSE "apply"]_vars
    /\ [](\A p \in Procs :
            (pc[p] = "write" /\ call[p].cmd = "update_excel_cells")
            => sheets[p] = BatchEdit(read_excel_file(call[p].opened).val,
                                    call[p].sheet_name,
                                    SelectSeq(call[p].updates, NotRowZero)))

\* a batch of an update of row 0 and then one of a later row has been
\* applied, and the second one has changed its sheet
C15_Witness ==
    \E p \in Procs :
        /\ pc[p] = "write" /\ call[p].cmd = "update_excel_cells"
        /\ Len(call[p].updates) = 2
        /\ call[p].updates[1].row = 0
        /\ call[p].updates[2].row >= 1
        /\ \E k \in 1..Len(sheets[p]) :
              /\ sheets[p][k].sheet_name = call[p].sheet_name
              /\ sheets[p][k] # read_excel_file(call[p].opened).val[k]
              /\ sheets[p][k].rows[call[p].updates[2].row][call[p].updates[2].column + 1]
                    = CoerceValue(call[p].updates[2].value)


\* some update of the batch names row r and the column of the c-th cell
Targeted(updates, r, c) ==
    \E j \in 1..Len(updates) : updates[j].row = r /\ updates[j].column = c - 1

\* C16: while update_excel_cells applies a batch for sheet name S and when it
\* saves, its sheets are as many as read_excel_file returned and in that
\* order, each with the name and the headers it had; a sheet of another
\* name has the rows it had; and in a sheet named S every cell that was
\* there and that no update of the batch names has the value it had
C16_BatchEditFrame ==
    \A p \in Procs :
        (pc[p] \in {"apply", "write"} /\ call[p].cmd = "update_excel_cells")
        => LET base == read_excel_file(call[p].opened).val
           IN  /\ Len(sheets[p]) = Len(base)
               /\ \A k \in 1..Len(base) :
                     /\ sheets[p][k].sheet_name = base[k].sheet_name
                     /\ sheets[p][k].headers = base[k].headers
                     /\ base[k].sheet_name # call[p].sheet_name
                           => sheets[p][k].rows = base[k].rows
                     /\ Len(sheets[p][k].rows) >= Len(base[k].rows)
                     /\ \A r \in 1..Len(base[k].rows) :
                           /\ Len(sheets[p][k].rows[r]) >= Len(base[k].rows[r])
                           /\ \A c \in 1..Len(base[k].rows[r]) :
                                 ~Targeted(call[p].updates, r, c)
                                 => sheets[p][k].rows[r][c] = base[k].rows[r][c]

\* a whole batch has been applied to one sheet of a workbook of several: it
\* has changed a row of that sheet which holds a cell no update names
C16_Witness ==
    \E p \in Procs :
        /\ pc[p] = "write" /\ call[p].cmd = "update_excel_cells"
        /\ Len(sheets[p]) >= 2
        /\ \E k \in 1..Len(sheets[p]) :
              LET base == read_excel_file(call[p].opened).val[k]
              IN  /\ sheets[p][k].sheet_name = call[p].sheet_name
                  /\ \E r \in 1..Len(base.rows) :
                        /\ sheets[p][k].rows[r] # base.rows[r]
                        /\ \E c \in 1..Len(base.rows[r]) :
                              ~Targeted(call[p].updates, r, c)

=============================================================================
